---- MODULE Spec2Model ----
(***************************************************************************)
(* Model of DeckGenerationQueue (app/src/queue/deck-generation-queue.ts):  *)
(* the lazily initialised RabbitMQ connection/channel, enqueue, the        *)
(* consumer subscription and the per-message handler, together with the    *)
(* in-memory status map.  Node runs one synchronous block at a time; every *)
(* action below is the code between two awaits.                            *)
(***************************************************************************)
EXTENDS Integers, Sequences, FiniteSets, TLC

\* Number of enqueue calls made on the process.
MaxJobs == 2
\* Longest card list the generator returns.
MaxCards == 2

Calls == 1..MaxJobs
\* Message 0 is the one found in the durable queue at start-up, message n
\* (n >= 1) the one published for the n-th generated jobId.
MsgIds == 0..MaxJobs
\* init() creates at most one channel per enqueue call.
Chans == 1..MaxJobs

----------------------------------------------------------------------------
\* Values.  Map keys and payload values are <<tag, n>> pairs; an optional
\* value (a field that may be undefined) is a sequence of length 0 or 1.

Generate(n) == <<"job", n>>
OldJobId == <<"job", 0>>
UnknownKey == <<"unknown", 0>>
UndefinedKey == <<"undefined", 0>>
ForeignMessageId == <<"messageId", 0>>
NoKey == <<"none", 0>>

JobKeys == {Generate(n) : n \in 0..MaxJobs}
Keys == JobKeys \cup {UnknownKey, UndefinedKey, ForeignMessageId}

Undefined == <<>>
Some(v) == <<v>>
\* a ?? b
Coalesce(a, b) == IF a = Undefined THEN b ELSE a

Absent == [state |-> "absent", cards |-> <<>>]
Queued == [state |-> "queued", cards |-> <<>>]
Processing == [state |-> "processing", cards |-> <<>>]
Failed == [state |-> "failed", cards |-> <<>>]
Project(card) == [question |-> card.question, answer |-> card.answer]
MapProject(cards) == [i \in 1..Len(cards) |-> Project(cards[i])]
Completed(cards) == [state |-> "completed", cards |-> MapProject(cards)]

CardA == [question |-> "q1", answer |-> "a1", difficulty |-> Undefined, tags |-> Undefined]
CardB == [question |-> "q2", answer |-> "a2", difficulty |-> Some("hard"), tags |-> Some(<<"t">>)]
\* What generateCards may resolve with: a list of 0..MaxCards cards, the two
\* kinds of card alternating so that neighbours differ.
PipelineOutputs ==
  {[i \in 1..n |-> IF i % 2 = 1 THEN CardB ELSE CardA] : n \in 0..MaxCards}

Input == [deckId |-> <<"deck", 1>>, userId |-> <<"user", 1>>]

\* JSON.stringify of an object: the list of its defined fields.
JSONStringify(p) ==
  (IF p.jobId = Undefined THEN <<>> ELSE << <<"jobId", p.jobId[1]>> >>)
  \o << <<"deckId", p.deckId>>, <<"userId", p.userId>> >>
InvalidJSON == << <<"#", NoKey>> >>
Field(text, name) ==
  IF \E i \in 1..Len(text) : text[i][1] = name
    THEN Some((text[CHOOSE i \in 1..Len(text) : text[i][1] = name])[2])
    ELSE Undefined
\* JSON.parse: throws on text that is not JSON.
JSONParse(text) ==
  IF text = InvalidJSON
    THEN [threw |-> TRUE, jobId |-> Undefined, deckId |-> Undefined, userId |-> Undefined]
    ELSE [threw |-> FALSE, jobId |-> Field(text, "jobId"),
          deckId |-> Field(text, "deckId"), userId |-> Field(text, "userId")]

NoMessage == [content |-> <<>>, messageId |-> Undefined, own |-> FALSE, redelivered |-> FALSE]
Message(content, mid) ==
  [content |-> content, messageId |-> mid, own |-> FALSE, redelivered |-> FALSE]
OldJob ==
  Message(JSONStringify([jobId |-> Some(OldJobId), deckId |-> Input.deckId,
                         userId |-> Input.userId]), Undefined)
\* That job put back by the broker: the earlier run took it, inserted its
\* card and stopped before the ack of line 144.
RedeliveredJob == [OldJob EXCEPT !.redelivered = TRUE]
\* What the durable queue may hold when the process starts: nothing, a job
\* published by an earlier run of the process, or a message of another
\* publisher that is not a job.
Leftovers ==
  { NoMessage,
    OldJob,
    Message(InvalidJSON, Undefined),
    Message(InvalidJSON, Some(ForeignMessageId)),
    Message(JSONStringify([jobId |-> Undefined, deckId |-> Input.deckId,
                           userId |-> Input.userId]), Undefined) }

----------------------------------------------------------------------------
VARIABLES
  connection,    \* this.connection: 0 while unset
  channel,       \* this.channel: 0 while unset
  connections,   \* connections opened so far
  channels,      \* channels created so far
  chanOpen,      \* channel -> still open
  declared,      \* channels whose assertQueue succeeded
  isConsuming,   \* this.isConsuming
  consumerChan,  \* channel of the consume call, 0 before it
  consumerReady, \* consume-ok received: the callback is registered
  statuses,      \* this.statuses
  nextJob,       \* jobIds generated so far
  enq,           \* enqueue call -> [pc, jobId, chan, at, started]: where it is,
                 \* its jobId, the channel its init created, the step at
                 \* which it rejected, whether it made the consume call
  msgs,          \* message id -> message
  queue,         \* the broker's queue: message ids, oldest first
  hnd,           \* message id -> state of its handleMessage call
  sink,          \* message id -> rows its handler inserted
  settled,       \* message id -> "none" | "acked" | "rejected" at the broker
  written,       \* key -> the states written under it by statuses.set, in order
  lookup         \* what the last getStatus call returned

vars == <<connection, channel, connections, channels, chanOpen, declared,
          isConsuming, consumerChan, consumerReady, statuses, nextJob, enq,
          msgs, queue, hnd, sink, settled, written, lookup>>

brokerVars == <<connection, channel, connections, channels, chanOpen, declared>>

\* A handleMessage call: where it is, what generateCards gave it ("none",
\* "cards" or "raised"), the cards, the inserts that have resolved, and the
\* calls made for its message so far (ack, nack, deliveries, and runs: the
\* generateCards calls of line 110).
NoHandler ==
  [pc |-> "none", result |-> "none", cards |-> <<>>, k |-> 0,
   insertFailed |-> FALSE, acks |-> 0, nacks |-> 0, deliveries |-> 0, runs |-> 0]
\* What the earlier run left of a redelivered job: one delivery, one
\* generateCards call, and the row of its one card.
EarlierRun == [NoHandler EXCEPT !.deliveries = 1, !.runs = 1]
EarlierRows(left) ==
  LET p == JSONParse(left.content) IN
  << [question |-> CardB.question, answer |-> CardB.answer,
      user_id |-> p.userId, deck_id |-> p.deckId,
      status |-> "new", review_count |-> 0, last_review_date |-> "null",
      difficulty |-> "hard", tags |-> <<"t">>] >>

\* No getStatus call has been made yet.
NoLookup == [state |-> "none", cards |-> <<>>]

InitWith(leftovers) ==
  /\ connection = 0
  /\ channel = 0
  /\ connections = 0
  /\ channels = 0
  /\ chanOpen = [c \in Chans |-> FALSE]
  /\ declared = {}
  /\ isConsuming = FALSE
  /\ consumerChan = 0
  /\ consumerReady = FALSE
  /\ statuses = [k \in Keys |-> Absent]
  /\ nextJob = 0
  /\ enq = [e \in Calls |-> [pc |-> "idle", jobId |-> NoKey, chan |-> 0,
                              at |-> "none", started |-> FALSE]]
  /\ \E left \in leftovers :
       /\ msgs = [m \in MsgIds |-> IF m = 0 THEN left ELSE NoMessage]
       /\ queue = IF left = NoMessage THEN <<>> ELSE <<0>>
       /\ hnd = [m \in MsgIds |->
                  IF m = 0 /\ left.redelivered THEN EarlierRun ELSE NoHandler]
       /\ sink = [m \in MsgIds |->
                   IF m = 0 /\ left.redelivered THEN EarlierRows(left) ELSE <<>>]
  /\ settled = [m \in MsgIds |-> "none"]
  /\ written = [k \in Keys |-> <<>>]
  /\ lookup = NoLookup

Init == InitWith(Leftovers)
\* The process starts on a queue that holds the redelivered job.
RedeliveryInit == InitWith({RedeliveredJob})

----------------------------------------------------------------------------
\* The broker's side of a channel that closes (connection lost, channel
\* error): deliveries of that channel that were never settled go back to the
\* head of the queue.
MsgOrder == [i \in 1..(MaxJobs + 1) |-> i - 1]
Unsettled(m) == hnd[m].pc # "none" /\ settled[m] = "none"
Requeued(c) ==
  IF c = consumerChan /\ consumerReady /\ chanOpen[c]
    THEN SelectSeq(MsgOrder, Unsettled) \o queue
    ELSE queue

Log(w, key, state) == [w EXCEPT ![key] = Append(@, state)]

\* enqueue publishing without recording the job first
QueuedWrite_Skipped(st, jobId) == st
\* lines 56-59
QueuedWrite(st, jobId) == [st EXCEPT ![jobId] = Queued]

\* startConsumer forgetting to raise the flag
ConsumingFlag_NotSet == FALSE
\* line 85: this.isConsuming = true, before the consume call
ConsumingFlag == TRUE

\* a queue that hands out the newest message first
Publish_AtHead(q, n) == <<n>> \o q
\* lines 61-63: sendToQueue puts the message at the end of the queue
Publish(q, n) == Append(q, n)

\* enqueue from line 49 on, one synchronous block: the jobId, the Queued
\* write, the publish and, for the first call that gets here, the consume
\* call of startConsumer (whose own guard at line 81 passes: the channel is
\* set and the flag was just read false).  sendToQueue throws on a closed
\* channel.
Submit(e, en) ==
  LET n == nextJob + 1
      jobId == Generate(n)
      payload == [jobId |-> Some(jobId), deckId |-> Input.deckId, userId |-> Input.userId]
      message == [content |-> JSONStringify(payload), messageId |-> Undefined, own |-> TRUE,
                  redelivered |-> FALSE]
  IN
  /\ channel # 0
  /\ nextJob' = n
  /\ statuses' = QueuedWrite(statuses, jobId)
  /\ written' = Log(written, jobId, "queued")
  /\ IF ~chanOpen[channel]
       THEN /\ enq' = [en EXCEPT ![e].pc = "failed", ![e].at = "publish",
                                     ![e].jobId = jobId]
            /\ UNCHANGED <<msgs, queue, isConsuming, consumerChan>>
       ELSE /\ msgs' = [msgs EXCEPT ![n] = message]
            /\ queue' = Publish(queue, n)
            /\ IF ~isConsuming
                 THEN /\ isConsuming' = ConsumingFlag
                      /\ consumerChan' = channel
                      /\ enq' = [en EXCEPT ![e].pc = "consume", ![e].jobId = jobId,
                                           ![e].started = TRUE]
                 ELSE /\ enq' = [en EXCEPT ![e].pc = "returned", ![e].jobId = jobId]
                      /\ UNCHANGED <<isConsuming, consumerChan>>
  /\ UNCHANGED <<consumerReady, hnd, sink, settled>>

\* enqueue recording the job before it has a channel
BeforeInit_WritesQueued(st, jobId) == QueuedWrite(st, jobId)
\* lines 45-47: the status map as enqueue leaves it on its way into init
BeforeInit(st, jobId) == st

\* enqueue is called.  Without a channel it enters init, which starts
\* connecting (lines 45-46, 35-39); with one it runs to its end or to the
\* consume call.
EnqueueStart(e) ==
  /\ enq[e].pc = "idle"
  /\ IF channel = 0
       THEN /\ enq' = [enq EXCEPT ![e].pc = "connect"]
            /\ statuses' = BeforeInit(statuses, Generate(nextJob + 1))
            /\ UNCHANGED <<nextJob, msgs, queue, isConsuming, consumerChan,
                           consumerReady, hnd, sink, settled, written>>
       ELSE Submit(e, enq)
  /\ UNCHANGED brokerVars
  /\ UNCHANGED lookup

\* line 39: amqplib.connect resolves; line 40 asks for a channel.
ConnectOk(e) ==
  /\ enq[e].pc = "connect"
  /\ connections' = connections + 1
  /\ connection' = connections + 1
  /\ enq' = [enq EXCEPT ![e].pc = "createChannel"]
  /\ UNCHANGED <<channel, channels, chanOpen, declared, isConsuming, consumerChan,
                 consumerReady, statuses, nextJob, msgs, queue, hnd, sink, settled, written>>
  /\ UNCHANGED lookup

\* line 39: amqplib.connect rejects; init and enqueue reject.
ConnectFail(e) ==
  /\ enq[e].pc = "connect"
  /\ enq' = [enq EXCEPT ![e].pc = "failed", ![e].at = "connect"]
  /\ UNCHANGED <<brokerVars, isConsuming, consumerChan, consumerReady, statuses,
                 nextJob, msgs, queue, hnd, sink, settled, written>>
  /\ UNCHANGED lookup

\* line 40: createChannel resolves; line 41 declares the queue on it.
CreateChannelOk(e) ==
  /\ enq[e].pc = "createChannel"
  /\ channels' = channels + 1
  /\ channel' = channels + 1
  /\ chanOpen' = [chanOpen EXCEPT ![channels + 1] = TRUE]
  /\ enq' = [enq EXCEPT ![e].pc = "assertQueue", ![e].chan = channels + 1]
  /\ UNCHANGED <<connection, connections, declared, isConsuming, consumerChan,
                 consumerReady, statuses, nextJob, msgs, queue, hnd, sink, settled, written>>
  /\ UNCHANGED lookup

\* line 40: createChannel rejects; this.connection stays set.
CreateChannelFail(e) ==
  /\ enq[e].pc = "createChannel"
  /\ enq' = [enq EXCEPT ![e].pc = "failed", ![e].at = "createChannel"]
  /\ UNCHANGED <<brokerVars, isConsuming, consumerChan, consumerReady, statuses,
                 nextJob, msgs, queue, hnd, sink, settled, written>>
  /\ UNCHANGED lookup

\* line 41: assertQueue resolves, init returns and enqueue goes on from 49.
AssertQueueOk(e) ==
  /\ enq[e].pc = "assertQueue"
  /\ chanOpen[enq[e].chan]
  /\ declared' = declared \cup {enq[e].chan}
  /\ Submit(e, enq)
  /\ UNCHANGED <<connection, channel, connections, channels, chanOpen>>
  /\ UNCHANGED lookup

\* line 41: assertQueue rejects, which amqplib does when the channel has
\* closed; this.channel keeps the closed channel.
AssertQueueFail(e) ==
  /\ enq[e].pc = "assertQueue"
  /\ chanOpen' = [chanOpen EXCEPT ![enq[e].chan] = FALSE]
  /\ queue' = Requeued(enq[e].chan)
  /\ enq' = [enq EXCEPT ![e].pc = "failed", ![e].at = "assertQueue"]
  /\ UNCHANGED <<connection, channel, connections, channels, declared, isConsuming,
                 consumerChan, consumerReady, statuses, nextJob, msgs, hnd, sink, settled, written>>
  /\ UNCHANGED lookup

\* lines 87-93: the broker confirms the subscription; from here on it
\* delivers to the callback.
ConsumeOk(e) ==
  /\ enq[e].pc = "consume"
  /\ chanOpen[consumerChan]
  /\ consumerReady' = TRUE
  /\ enq' = [enq EXCEPT ![e].pc = "consumeOk"]
  /\ UNCHANGED <<brokerVars, isConsuming, consumerChan, statuses, nextJob, msgs,
                 queue, hnd, sink, settled, written>>
  /\ UNCHANGED lookup

\* lines 87-93: consume rejects (channel closed); startConsumer and enqueue
\* reject, isConsuming stays true.
ConsumeFail(e) ==
  /\ enq[e].pc = "consume"
  /\ chanOpen' = [chanOpen EXCEPT ![consumerChan] = FALSE]
  /\ enq' = [enq EXCEPT ![e].pc = "failed", ![e].at = "consume"]
  /\ UNCHANGED <<connection, channel, connections, channels, declared, isConsuming,
                 consumerChan, consumerReady, statuses, nextJob, msgs, queue, hnd,
                 sink, settled, written>>
  /\ UNCHANGED lookup

\* lines 66-69: startConsumer has resolved and enqueue returns the jobId.
EnqueueReturn(e) ==
  /\ enq[e].pc = "consumeOk"
  /\ enq' = [enq EXCEPT ![e].pc = "returned"]
  /\ UNCHANGED <<brokerVars, isConsuming, consumerChan, consumerReady, statuses,
                 nextJob, msgs, queue, hnd, sink, settled, written>>
  /\ UNCHANGED lookup

\* A channel closes under the process.
ChannelClose(c) ==
  /\ c <= channels
  /\ chanOpen[c]
  /\ chanOpen' = [chanOpen EXCEPT ![c] = FALSE]
  /\ queue' = Requeued(c)
  /\ UNCHANGED <<connection, channel, connections, channels, declared, isConsuming,
                 consumerChan, consumerReady, statuses, nextJob, enq, msgs, hnd,
                 sink, settled, written>>
  /\ UNCHANGED lookup

----------------------------------------------------------------------------
\* handleMessage.

Payload(m) == JSONParse(msgs[m].content)
\* The key of statuses.set(payload.jobId, ...): undefined when the parsed
\* object has no jobId.
PayloadKey(m) == Coalesce(Payload(m).jobId, Some(UndefinedKey))[1]
\* line 147: payload?.jobId ?? message.properties.messageId ?? "unknown"
CatchKey(m) ==
  LET fromPayload == IF Payload(m).threw THEN Undefined ELSE Payload(m).jobId
  IN Coalesce(Coalesce(fromPayload, msgs[m].messageId), Some(UnknownKey))[1]

\* lines 105-108
ProcessingWrite(st, key) == [st EXCEPT ![key] = Processing]
\* lines 135-142
CompletedWrite(st, key, cards) == [st EXCEPT ![key] = Completed(cards)]
\* the catch block leaving the status as it found it
FailedWrite_Skipped(st, key) == st
\* lines 148-151
FailedWrite(st, key) == [st EXCEPT ![key] = Failed]
\* nack(message, false, true): the rejected message goes back to the queue
NackRequeue_Requeues == TRUE
\* line 152: the requeue argument of nack
NackRequeue == FALSE

\* the insert passing the card's difficulty and tags on as they are
InsertFields_NoDefaults(card, m) ==
  [question |-> card.question, answer |-> card.answer,
   user_id |-> Payload(m).userId, deck_id |-> Payload(m).deckId,
   status |-> "new", review_count |-> 0, last_review_date |-> "null",
   difficulty |-> card.difficulty, tags |-> card.tags]
\* lines 119-132, without the generated row id
InsertFields(card, m) ==
  [question |-> card.question, answer |-> card.answer,
   user_id |-> Payload(m).userId, deck_id |-> Payload(m).deckId,
   status |-> "new", review_count |-> 0, last_review_date |-> "null",
   difficulty |-> Coalesce(card.difficulty, Some("medium"))[1],
   tags |-> Coalesce(card.tags, Some(<<>>))[1]]

\* The catch block, lines 145-153, entered with status map st, write log w
\* and handler state h: the Failed write, then nack on this.channel.  nack throws on a
\* closed channel, and the error leaves handleMessage.  The broker knows the
\* delivery only on the channel that delivered it.
Catch(st, w, h, m) ==
  LET st2 == FailedWrite(st, CatchKey(m))
      w2 == Log(w, CatchKey(m), "failed")
  IN
  IF ~chanOpen[channel]
    THEN [st |-> st2, w |-> w2, h |-> [h EXCEPT !.pc = "raised"],
          set |-> settled[m], q |-> queue]
    ELSE [st |-> st2, w |-> w2,
          h |-> [h EXCEPT !.pc = "done", !.nacks = @ + 1],
          set |-> IF channel = consumerChan /\ ~NackRequeue THEN "rejected" ELSE settled[m],
          q |-> IF channel = consumerChan /\ NackRequeue THEN <<m>> \o queue ELSE queue]

\* lines 135-144: the Completed write, then ack on this.channel.  ack throws
\* on a closed channel, inside the try block.
Complete(st, h, m) ==
  LET st2 == CompletedWrite(st, PayloadKey(m), h.cards)
      w2 == Log(written, PayloadKey(m), "completed")
  IN
  IF ~chanOpen[channel]
    THEN Catch(st2, w2, h, m)
    ELSE [st |-> st2, w |-> w2,
          h |-> [h EXCEPT !.pc = "done", !.acks = @ + 1],
          set |-> IF channel = consumerChan THEN "acked" ELSE settled[m],
          q |-> queue]

Apply(r, m) ==
  /\ statuses' = r.st
  /\ written' = r.w
  /\ hnd' = [hnd EXCEPT ![m] = r.h]
  /\ settled' = [settled EXCEPT ![m] = r.set]

\* lines 87-108: the broker delivers the oldest queued message and the
\* callback runs handleMessage up to its first await.  Nothing limits the
\* number of unsettled deliveries (no prefetch), and the callback's promise is
\* not awaited by the channel.
Deliver ==
  /\ consumerReady
  /\ chanOpen[consumerChan]
  /\ queue # <<>>
  /\ LET m == Head(queue)
         h == [NoHandler EXCEPT !.acks = hnd[m].acks, !.nacks = hnd[m].nacks,
                                !.deliveries = hnd[m].deliveries + 1,
                                !.runs = hnd[m].runs]
     IN
     IF Payload(m).threw
       THEN LET r == Catch(statuses, written, h, m) IN
            /\ Apply(r, m)
            /\ queue' = IF r.q = queue THEN Tail(queue) ELSE queue
       ELSE /\ statuses' = ProcessingWrite(statuses, PayloadKey(m))
            /\ written' = Log(written, PayloadKey(m), "processing")
            /\ hnd' = [hnd EXCEPT ![m] = [h EXCEPT !.pc = "pipeline", !.runs = @ + 1]]
            /\ queue' = Tail(queue)
            /\ UNCHANGED settled
  /\ UNCHANGED <<brokerVars, isConsuming, consumerChan, consumerReady, nextJob, enq,
                 msgs, sink>>
  /\ UNCHANGED lookup

\* lines 110-118: generateCards resolves with its cards.  The loop starts the
\* first insert, or with no card falls through to lines 135-144.
PipelineReturn(m, out) ==
  /\ hnd[m].pc = "pipeline"
  /\ LET h == [hnd[m] EXCEPT !.result = "cards", !.cards = out] IN
     IF out = <<>>
       THEN LET r == Complete(statuses, h, m) IN
            /\ Apply(r, m)
            /\ queue' = r.q
       ELSE /\ hnd' = [hnd EXCEPT ![m] = [h EXCEPT !.pc = "insert"]]
            /\ UNCHANGED <<statuses, settled, queue, written>>
  /\ UNCHANGED <<brokerVars, isConsuming, consumerChan, consumerReady, nextJob, enq,
                 msgs, sink>>
  /\ UNCHANGED lookup

\* lines 110-116: generateCards rejects.
PipelineRaise(m) ==
  /\ hnd[m].pc = "pipeline"
  /\ LET r == Catch(statuses, written, [hnd[m] EXCEPT !.result = "raised"], m) IN
     /\ Apply(r, m)
     /\ queue' = r.q
  /\ UNCHANGED <<brokerVars, isConsuming, consumerChan, consumerReady, nextJob, enq,
                 msgs, sink>>
  /\ UNCHANGED lookup

\* lines 118-133: the pending insert resolves; the loop starts the next one or
\* ends, and lines 135-144 follow.
InsertOk(m) ==
  /\ hnd[m].pc = "insert"
  /\ LET h == [hnd[m] EXCEPT !.k = @ + 1] IN
     /\ sink' = [sink EXCEPT ![m] = Append(@, InsertFields(h.cards[h.k], m))]
     /\ IF h.k = Len(h.cards)
          THEN LET r == Complete(statuses, h, m) IN
               /\ Apply(r, m)
               /\ queue' = r.q
          ELSE /\ hnd' = [hnd EXCEPT ![m] = h]
               /\ UNCHANGED <<statuses, settled, queue, written>>
  /\ UNCHANGED <<brokerVars, isConsuming, consumerChan, consumerReady, nextJob, enq,
                 msgs>>
  /\ UNCHANGED lookup

\* lines 119-132: the pending insert rejects.
InsertFail(m) ==
  /\ hnd[m].pc = "insert"
  /\ LET r == Catch(statuses, written, [hnd[m] EXCEPT !.insertFailed = TRUE], m) IN
     /\ Apply(r, m)
     /\ queue' = r.q
  /\ UNCHANGED <<brokerVars, isConsuming, consumerChan, consumerReady, nextJob, enq,
                 msgs, sink>>
  /\ UNCHANGED lookup

----------------------------------------------------------------------------
\* lines 72-74: this.statuses.get(jobId); Absent stands for undefined
GetStatus(k) == statuses[k]
\* a lookup that files a default entry for a key it does not find
AfterGetStatus_Defaulting(st, k) == IF st[k] = Absent THEN [st EXCEPT ![k] = Queued] ELSE st
\* lines 72-74: the status map as a getStatus call leaves it
AfterGetStatus(st, k) == st
\* A caller polls getStatus(k).
GetStatusCall(k) ==
  /\ lookup' = GetStatus(k)
  /\ statuses' = AfterGetStatus(statuses, k)
  /\ UNCHANGED <<brokerVars, isConsuming, consumerChan, consumerReady, nextJob, enq,
                 msgs, queue, hnd, sink, settled, written>>

----------------------------------------------------------------------------
Next ==
  \/ \E e \in Calls : EnqueueStart(e)
  \/ \E e \in Calls : ConnectOk(e)
  \/ \E e \in Calls : ConnectFail(e)
  \/ \E e \in Calls : CreateChannelOk(e)
  \/ \E e \in Calls : CreateChannelFail(e)
  \/ \E e \in Calls : AssertQueueOk(e)
  \/ \E e \in Calls : AssertQueueFail(e)
  \/ \E e \in Calls : ConsumeOk(e)
  \/ \E e \in Calls : ConsumeFail(e)
  \/ \E e \in Calls : EnqueueReturn(e)
  \/ \E c \in Chans : ChannelClose(c)
  \/ Deliver
  \/ \E m \in MsgIds, out \in PipelineOutputs : PipelineReturn(m, out)
  \/ \E m \in MsgIds : PipelineRaise(m)
  \/ \E m \in MsgIds : InsertOk(m)
  \/ \E m \in MsgIds : InsertFail(m)

Spec == Init /\ [][Next]_vars

\* The awaited calls settle: channel.consume is confirmed or rejected,
\* generateCards resolves or rejects, and so does every insert.
ConsumeSettles(e) == ConsumeOk(e) \/ ConsumeFail(e)
PipelineSettles(m) ==
  (\E out \in PipelineOutputs : PipelineReturn(m, out)) \/ PipelineRaise(m)
InsertSettles(m) == InsertOk(m) \/ InsertFail(m)
\* The event loop runs every continuation that is ready, and the broker
\* hands every queued message to the subscription while it stands.
Fairness ==
  /\ \A e \in Calls : WF_vars(ConsumeSettles(e)) /\ WF_vars(EnqueueReturn(e))
  /\ WF_vars(Deliver)
  /\ \A m \in MsgIds : WF_vars(PipelineSettles(m)) /\ WF_vars(InsertSettles(m))
\* The process started on an empty queue.
LiveInit == InitWith({NoMessage})
LiveSpec == LiveInit /\ [][Next]_vars /\ Fairness
RedeliverySpec == RedeliveryInit /\ [][Next]_vars

\* The process with a caller polling getStatus, started on an empty queue.
LookupNext == Next \/ \E k \in Keys : GetStatusCall(k)
LookupSpec == LiveInit /\ [][LookupNext]_vars

----------------------------------------------------------------------------
\* Properties.

Rank(s) ==
  CASE s.state = "absent" -> 0
    [] s.state = "queued" -> 1
    [] s.state = "processing" -> 2
    [] OTHER -> 3
Terminal(s) == s.state \in {"completed", "failed"}
Finished(m) == hnd[m].pc \in {"done", "raised"}
InFlight(m) == hnd[m].pc \in {"pipeline", "insert"}
Published(n) == msgs[n] # NoMessage /\ msgs[n].own

\* C1: once Completed or Failed has been written under a jobId, no later
\* write under it records a different state, so at most one of the two is
\* ever recorded.
C1_TerminalIsFinal ==
  \A k \in JobKeys : \A i, j \in 1..Len(written[k]) :
    (i < j /\ written[k][i] \in {"completed", "failed"})
      => written[k][j] = written[k][i]

StateRank(state) ==
  CASE state = "queued" -> 1
    [] state = "processing" -> 2
    [] OTHER -> 3
\* C2: for every jobId the states written under it, in order, never go back
\* along Queued < Processing < {Completed, Failed}, whatever the
\* interleaving of enqueue calls and handlers.
C2_NonDecreasing ==
  \A k \in JobKeys : \A i, j \in 1..Len(written[k]) :
    i < j => StateRank(written[k][i]) <= StateRank(written[k][j])
\* Two jobs of overlapping calls, one through to its end and one in the
\* worker.
C2_Witness ==
  /\ Terminal(statuses[Generate(1)])
  /\ statuses[Generate(2)].state = "processing"
  /\ \E e \in Calls : enq[e].pc = "consumeOk"

\* C3: whenever the worker writes Processing or a terminal status under a
\* jobId, the map already holds an entry for it.
C3_NeverSkipsQueued ==
  [][\A k \in JobKeys :
       (statuses'[k] # statuses[k] /\ Rank(statuses'[k]) >= 2)
         => statuses[k].state # "absent"]_vars

\* C4: a job whose generator returned no card ends Failed, with no insert,
\* one reject and no ack.
C4_EmptyListFails ==
  \A m \in MsgIds :
    (Finished(m) /\ hnd[m].result = "cards" /\ hnd[m].cards = <<>>)
      => /\ statuses[PayloadKey(m)].state = "failed"
         /\ sink[m] = <<>>
         /\ hnd[m].nacks = 1
         /\ hnd[m].acks = 0

\* C5: at most one handler is between its start and its end, and of two jobs
\* published one after the other the second is not Processing while the
\* first is Queued or Processing.
C5_OneAtATime ==
  /\ Cardinality({m \in MsgIds : InFlight(m)}) <= 1
  /\ \A a, b \in 1..MaxJobs :
       (a < b /\ Published(a) /\ Published(b)
          /\ statuses[Generate(b)].state = "processing")
         => statuses[Generate(a)].state \notin {"queued", "processing"}

\* C6: in the state in which enqueue returns its jobId, the status of that
\* jobId is Queued.
C6_QueuedAtReturn ==
  [][\A e \in Calls :
       (enq[e].pc # "returned" /\ enq'[e].pc = "returned")
         => statuses'[enq'[e].jobId].state = "queued"]_vars

\* C7: every jobId that enqueue has published or returned has an entry in
\* the status map.
C7_PublishedHasEntry ==
  /\ \A n \in 1..MaxJobs : Published(n) => statuses[Generate(n)].state # "absent"
  /\ \A e \in Calls : enq[e].pc = "returned" => statuses[enq[e].jobId].state # "absent"
\* A call has published and waits for the subscription while the other has
\* published and returned.
C7_Witness ==
  /\ \E e \in Calls : enq[e].pc = "consume"
  /\ \E e \in Calls : enq[e].pc = "returned"
  /\ Published(1) /\ Published(2)

\* C8: a job whose generator returned cards and whose inserts all succeeded
\* ends Completed with exactly those cards, projected to question and answer.
C8_CompletedWithCards ==
  \A m \in MsgIds :
    (Finished(m) /\ hnd[m].result = "cards" /\ hnd[m].cards # <<>>
       /\ ~hnd[m].insertFailed /\ hnd[m].k = Len(hnd[m].cards))
      => statuses[PayloadKey(m)] = Completed(hnd[m].cards)

\* C9: a job whose generator raised ends Failed with no insert, its message
\* rejected at the broker and delivered once.
C9_RaiseRejects ==
  \A m \in MsgIds :
    (Finished(m) /\ hnd[m].result = "raised")
      => /\ statuses[CatchKey(m)].state = "failed"
         /\ sink[m] = <<>>
         /\ settled[m] = "rejected"
         /\ hnd[m].deliveries = 1

\* C10: no handler ends by raising, and every handler that met a failure
\* ends with Failed recorded and the message rejected.
C10_FailuresAbsorbed ==
  \A m \in MsgIds :
    /\ hnd[m].pc # "raised"
    /\ (Finished(m) /\ (Payload(m).threw \/ hnd[m].result = "raised" \/ hnd[m].insertFailed))
         => (statuses[CatchKey(m)].state = "failed" /\ settled[m] = "rejected")

\* C11: the process opens at most one connection and creates at most one
\* channel.
C11_OneConnectionOneChannel == connections <= 1 /\ channels <= 1

Subscriptions == Cardinality({e \in Calls : enq[e].started})
\* C12: at most one consume subscription is ever created.
C12_OneSubscription == Subscriptions <= 1
\* The call that subscribed was rejected, and a later call went through
\* without subscribing.
C12_Witness ==
  \E e, e2 \in Calls :
    /\ enq[e].started /\ enq[e].pc = "failed"
    /\ enq[e2].pc = "returned" /\ ~enq[e2].started

FailedInInit(e) ==
  enq[e].pc = "failed" /\ enq[e].at \in {"connect", "createChannel", "assertQueue"}
\* C13: a call whose init rejected (connect, createChannel or assertQueue)
\* ends in an error with no jobId, and every status entry and every
\* published message of this process belongs to a call that got past init.
C13_InitFailureLeavesNothing ==
  /\ \A e \in Calls : FailedInInit(e) => enq[e].jobId = NoKey
  /\ \A n \in 1..MaxJobs :
       (statuses[Generate(n)] # Absent \/ msgs[n] # NoMessage)
         => \E e \in Calls : enq[e].jobId = Generate(n) /\ ~FailedInInit(e)
\* One call was rejected in init while another published and returned.
C13_Witness ==
  \E e, e2 \in Calls :
    /\ FailedInInit(e)
    /\ enq[e2].pc = "returned" /\ Published(1)

\* C14: getStatus of a key that no enqueue call of this process has
\* generated, and so none has returned, yields "not found".
C14_UnknownIsAbsent ==
  \A k \in Keys : (\A e \in Calls : enq[e].jobId # k) => GetStatus(k) = Absent

NoRecoverableId(m) ==
  /\ msgs[m] # NoMessage
  /\ msgs[m].messageId = Undefined
  /\ (Payload(m).threw \/ Payload(m).jobId = Undefined)
\* C15: for a message from which no identifier can be recovered (it does not
\* parse, or parses without a jobId, and has no messageId), nothing is
\* written under a key other than "unknown", and once its handler has ended
\* "unknown" holds Failed and the message is rejected.
C15_UnknownSentinel ==
  \A m \in MsgIds :
    (NoRecoverableId(m) /\ hnd[m].deliveries > 0)
      => /\ written[UndefinedKey] = <<>>
         /\ written[ForeignMessageId] = <<>>
         /\ Finished(m) => (statuses[UnknownKey] = Failed /\ settled[m] = "rejected")

\* C16: a message whose handler has ended has had exactly one ack or nack
\* call and is settled at the broker, acked exactly when its job ended
\* Completed and rejected exactly when it ended Failed.
C16_SettledOnce ==
  \A m \in MsgIds :
    Finished(m)
      => /\ hnd[m].acks + hnd[m].nacks = 1
         /\ settled[m] # "none"
         /\ Payload(m).jobId # Undefined
              => /\ settled[m] = "acked" <=> statuses[PayloadKey(m)].state = "completed"
                 /\ settled[m] = "rejected" <=> statuses[PayloadKey(m)].state = "failed"

\* The consume call was confirmed; a channel lost afterwards is not held
\* against the process here.
SubscriptionMade == consumerReady
SubscriptionPending == \E e \in Calls : enq[e].pc = "consume"
\* C17: in the state in which enqueue returns its jobId, the process has
\* made its subscription or the consume call for it is pending.
C17_ConsumerAtReturn ==
  [][\A e \in Calls :
       (enq[e].pc # "returned" /\ enq'[e].pc = "returned")
         => (SubscriptionMade' \/ SubscriptionPending')]_vars

\* C19: the job of an enqueue call that ended in an error has no message in
\* the queue's history.
C19_ErrorMeansNotPublished ==
  \A e \in Calls, n \in 1..MaxJobs :
    (enq[e].pc = "failed" /\ enq[e].jobId = Generate(n)) => ~Published(n)

\* C20: for every job, generateCards has been called at most once and the
\* sink holds at most one row per card of the job.
C20_ConsumedOnce ==
  \A m \in MsgIds :
    /\ hnd[m].runs <= 1
    /\ Finished(m) => Len(sink[m]) <= Len(hnd[m].cards)

JobReturned(n) ==
  \E e \in Calls : enq[e].pc = "returned" /\ enq[e].jobId = Generate(n)
\* The channel of the consume call has closed: the broker no longer
\* delivers to this process.
SubscriptionLost == consumerChan # 0 /\ ~chanOpen[consumerChan]
\* The broker cannot deliver message n: the channel was lost before the
\* message reached the callback.
Undeliverable(n) == SubscriptionLost /\ hnd[n].deliveries = 0
\* C18: every job whose jobId enqueue has returned eventually has Completed
\* or Failed in the status map, provided the broker delivers its message.
C18_EventuallyTerminal ==
  \A n \in 1..MaxJobs :
    JobReturned(n) ~> (Terminal(GetStatus(Generate(n))) \/ Undeliverable(n))
\* Both jobs were returned and have ended, one Completed and one Failed,
\* with the subscription standing.
C18_Witness ==
  /\ JobReturned(1) /\ JobReturned(2)
  /\ {GetStatus(Generate(1)).state, GetStatus(Generate(2)).state} = {"completed", "failed"}
  /\ ~SubscriptionLost

Recorded(key, state) == \E i \in 1..Len(written[key]) : written[key][i] = state
\* C21: a job one of whose inserts failed has had no insert after the failed
\* one, is Failed and was never Completed, has its message rejected at the
\* broker, and keeps the rows inserted before the failure.
C21_PartialInsertFails ==
  \A m \in MsgIds :
    (Finished(m) /\ hnd[m].insertFailed)
      => /\ Len(sink[m]) = hnd[m].k
         /\ hnd[m].k < Len(hnd[m].cards)
         /\ \A i \in 1..hnd[m].k : sink[m][i] = InsertFields(hnd[m].cards[i], m)
         /\ statuses[CatchKey(m)].state = "failed"
         /\ ~Recorded(CatchKey(m), "completed")
         /\ settled[m] = "rejected"
         /\ hnd[m].acks = 0

\* The row the sink is to receive for a card of message m.
ExpectedRow(card, m) ==
  [question |-> card.question, answer |-> card.answer,
   user_id |-> Payload(m).userId, deck_id |-> Payload(m).deckId,
   status |-> "new", review_count |-> 0, last_review_date |-> "null",
   difficulty |-> IF card.difficulty = Undefined THEN "medium" ELSE card.difficulty[1],
   tags |-> IF card.tags = Undefined THEN <<>> ELSE card.tags[1]]
\* Rows that were in the sink for message m before this process started.
RowsBefore(m) == IF msgs[m].redelivered THEN EarlierRows(msgs[m]) ELSE <<>>
\* C22: once Completed has been written for a job, the sink has received
\* from its handler exactly one row per generated card, in the generator's
\* order and with the fields of the card and the job and the defaults.
C22_CompletedAfterInserts ==
  \A m \in MsgIds :
    (msgs[m] # NoMessage /\ ~Payload(m).threw /\ Recorded(PayloadKey(m), "completed"))
      => sink[m] = RowsBefore(m)
                     \o [i \in 1..Len(hnd[m].cards) |-> ExpectedRow(hnd[m].cards[i], m)]
\* Completed was written for a job of two cards, one with and one without
\* difficulty and tags.
C22_Witness ==
  /\ Recorded(Generate(1), "completed")
  /\ Len(hnd[1].cards) = 2
  /\ Len(sink[1]) = 2

JobMessage(m) ==
  msgs[m] # NoMessage /\ ~Payload(m).threw /\ Payload(m).jobId # Undefined
C24_PublishOnDeclared ==
  [][\A n \in 1..MaxJobs :
       (msgs[n] = NoMessage /\ msgs'[n] # NoMessage) => channel' \in declared']_vars

\* A step of the handler of message m: its delivery, or the settling of its
\* generateCards call or of one of its inserts.
HandlerStep(m) ==
  \/ queue # <<>> /\ Head(queue) = m /\ Deliver
  \/ PipelineSettles(m)
  \/ InsertSettles(m)
\* C25: only steps of enqueue and of the handler change the status map; a
\* getStatus call leaves the status map, the connection, the channel and
\* the consumer flag as they were; and a step of the handler of a message
\* that carries jobId j changes no status entry but the one of j.
C25_OnlyEnqueueAndHandlerWrite ==
  [][/\ statuses' # statuses
          => \/ \E e \in Calls : EnqueueStart(e) \/ AssertQueueOk(e)
             \/ \E m \in MsgIds : HandlerStep(m)
     /\ \A k \in Keys :
          GetStatusCall(k)
            => UNCHANGED <<statuses, connection, channel, isConsuming, written>>
     /\ \A m \in MsgIds :
          (JobMessage(m) /\ HandlerStep(m))
            => \A k \in Keys \ {PayloadKey(m)} : statuses'[k] = statuses[k]]_vars
\* A poll has returned Completed with cards for one job while the handler
\* of the other, having written Processing, is still at work.
C25_Witness ==
  /\ lookup.state = "completed" /\ lookup.cards # <<>>
  /\ \E m \in 1..MaxJobs : hnd[m].pc = "insert" /\ JobMessage(m)

====
